---- MODULE Spec2Model ----
(***************************************************************************)
(* Model of train_pkt.py: the driver main (dataset selection, data         *)
(* loaders, epoch loop, checkpoint writes), the training pass train, the   *)
(* evaluation pass test, the learning-rate schedule adjust_lr and the PKT  *)
(* loss pkt_cosine_similarity_loss.                                        *)
(*                                                                         *)
(* Numbers.  Learning rates are integers in units of 0.0001, so that the    *)
(* products lr*scale and lr*scale*scale are exact.  The tensors of the PKT *)
(* loss are fixed-point numbers with FP units per 1.0 plus a NaN value.    *)
(* Network parameters are abstracted to a version number modulo ParamMod.  *)
(***************************************************************************)
EXTENDS Integers, Sequences, FiniteSets, TLC

VARIABLES
    args,         \* the parsed command line (global args)
    pretrained,   \* contents of the checkpoints at args.s_init and args.t_model
    pc,           \* position of the control flow in main / train / test
    err,          \* the exception that ended the run, "none" while running
    dataset,      \* dataset class selected at lines 81-90
    loaders,      \* the data loaders constructed so far (lines 106-117)
    epoch,        \* loop variable of main's for loop
    params,       \* parameters of snet and tnet
    requires_grad,\* requires_grad flag of the parameters of each net
    net_mode,     \* train()/eval() mode of each net
    grads,        \* .grad of the parameters of each net
    lr,           \* param_group['lr'] of the optimizer
    lr_idx,       \* index handed to the lr_list lookup of adjust_lr
    idx,          \* batch index of the running pass
    output_s,     \* student tensor bound by the forward call
    output_t,     \* teacher tensor bound by the forward call
    cls_in,       \* tensor handed to criterionCls
    pkt_in,       \* the two tensors handed to pkt_cosine_similarity_loss
    loss,         \* the loss tensor (the nets its graph reaches)
    meters,       \* count of the cls_losses/pkt_losses/top1/top5 meters
    files,        \* checkpoint sink: path -> record
    nTrain,       \* len(train_loader)
    nTest,        \* len(test_loader)
    batchLog,     \* operations executed so far for the current batch
    optSteps,     \* optimizer steps taken in the running pass
    passes,       \* completed passes and save_checkpoint calls of the run
    emb_s,        \* student tensor given to pkt_cosine_similarity_loss
    emb_t,        \* teacher tensor given to pkt_cosine_similarity_loss
    pkt           \* result of the loss computation on emb_s, emb_t

mainVars == <<args, pretrained, pc, err, dataset, loaders, epoch, params, requires_grad,
              net_mode, grads, lr, lr_idx, idx, output_s, output_t, cls_in,
              pkt_in, loss, meters, files, nTrain, nTest, batchLog, optSteps,
              passes>>
pktVars == <<emb_s, emb_t, pkt>>
vars == <<mainVars, pktVars>>

-----------------------------------------------------------------------------
(* Bounds of the model *)

SmallEpochs == 2        \* --epochs is drawn from 1..SmallEpochs and from
MaxOver == 1            \* DefaultEpochs..DefaultEpochs+MaxOver
MaxTrainBatches == 2    \* len(train_loader) in 1..MaxTrainBatches
MaxTestBatches == 2     \* len(test_loader) in 1..MaxTestBatches
ParamMod == 3           \* parameter versions are counted modulo ParamMod
BatchN == 2             \* rows N of the tensors given to the PKT loss
EmbD == 1               \* columns D of the tensors given to the PKT loss
FP == 1000              \* fixed-point units per 1.0

(* Program constants *)

DefaultEpochs == 200    \* --epochs default
Seg1 == 100             \* [args.lr] * 100
Seg2 == 50              \* [args.lr*scale] * 50
Seg3 == 50              \* [args.lr*scale*scale] * 50
ScaleDen == 10          \* scale = 0.1 = 1/ScaleDen
PadWidth == 3           \* {:>03}
NameCut == 6            \* args.t_name[6:], args.s_name[6:]
Eps == 1                \* eps, the smallest positive fixed-point number

Nets == {"snet", "tnet"}
LrChoices == {1000, 500}                     \* --lr 0.1, 0.05
DataNames == {"cifar10", "cifar100", "imagenet"}
EpochChoices == (1..SmallEpochs) \cup (DefaultEpochs..(DefaultEpochs + MaxOver))
T_NAME == <<"r","e","s","n","e","t","1","1","0">>
S_NAME == <<"r","e","s","n","e","t","2","0">>

NoTensor == [net |-> "none", elem |-> 0, kind |-> "none", graph |-> FALSE]

-----------------------------------------------------------------------------
(* adjust_lr *)

\* lr_list of adjust_lr for base rate b, as a sequence (1-based)
lr_list(b) ==
    [i \in 1..(Seg1 + Seg2 + Seg3) |->
        IF i <= Seg1 THEN b
        ELSE IF i <= Seg1 + Seg2 THEN b \div ScaleDen
        ELSE (b \div ScaleDen) \div ScaleDen]

\* Python list indexing l[i]: negative indices count from the end, anything
\* outside -len..len-1 raises IndexError
PyIndex(l, i) ==
    IF 0 <= i /\ i < Len(l) THEN [raised |-> "none", val |-> l[i + 1]]
    ELSE IF -Len(l) <= i /\ i < 0 THEN [raised |-> "none", val |-> l[Len(l) + i + 1]]
    ELSE [raised |-> "IndexError", val |-> 0]

\* mutant: the lookup uses lr_list[epoch]
adjust_lr_off_by_one(b, e) ==
    [index |-> e, res |-> PyIndex(lr_list(b), e)]

\* adjust_lr(optimizer, epoch): the index it computes and the lookup's outcome
adjust_lr(b, e) ==
    [index |-> e - 1, res |-> PyIndex(lr_list(b), e - 1)]

-----------------------------------------------------------------------------
(* checkpoint names *)

RECURSIVE Digits(_)
\* decimal digits of n >= 0, most significant first
Digits(n) == IF n < 10 THEN <<n>> ELSE Append(Digits(n \div 10), n % 10)

RECURSIVE PadLeft(_, _)
\* '{:>0w}': zero fill on the left up to width w, never truncating
PadLeft(s, w) == IF Len(s) >= w THEN s ELSE PadLeft(<<0>> \o s, w)

Suffix(name) == SubSeq(name, NameCut + 1, Len(name))

\* mutant: the epoch is left out of the file name
save_name_no_epoch(a, e) ==
    <<"results", "checkpoint",
      <<"pkt_r", Suffix(a.t_name), "_r", Suffix(a.s_name), "_", <<>>, ".ckp">> >>

\* save_name of epoch e
save_name(a, e) ==
    <<"results", "checkpoint",
      <<"pkt_r", Suffix(a.t_name), "_r", Suffix(a.s_name), "_",
        PadLeft(Digits(e), PadWidth), ".ckp">> >>

\* save_checkpoint(state, name): the file at name is created or replaced
save_checkpoint(fs, state, name) ==
    [p \in (DOMAIN fs) \cup {name} |-> IF p = name THEN state ELSE fs[p]]

-----------------------------------------------------------------------------
(* networks and optimizer *)

\* net(img): a 5-tuple of tensors, the last one the class scores; the
\* tensors are attached to the autograd graph when gradients are enabled
\* and the net's parameters require them
forward(net, grad_enabled) ==
    [i \in 1..5 |->
        [net |-> net, elem |-> i,
         kind |-> IF i = 5 THEN "scores" ELSE "feature",
         graph |-> grad_enabled /\ requires_grad[net]]]

detach(t) == [t EXCEPT !.graph = FALSE]

\* the nets whose parameters the graph of a loss over these tensors reaches
GraphNets(ts) == {t.net : t \in {u \in ts : u.graph}}

\* the parameter groups of the optimizer: snet.parameters()
OptimizerParams == {"snet"}

\* mutant: the step updates the parameters of every net
optimizer_step_all(p, g) ==
    [n \in Nets |-> (p[n] + 1) % ParamMod]

\* optimizer.step(): parameters of the optimizer's groups that have a
\* gradient are updated, the others are skipped
optimizer_step(p, g) ==
    [n \in Nets |-> IF n \in OptimizerParams /\ g[n] # "none"
                    THEN (p[n] + 1) % ParamMod ELSE p[n]]

-----------------------------------------------------------------------------
(* main *)

ArgChoices ==
    [epochs : EpochChoices, lr : LrChoices, data_name : DataNames,
     t_name : {T_NAME}, s_name : {S_NAME}]

PretrainedChoices == {[snet |-> 0, tnet |-> 1], [snet |-> 1, tnet |-> 0]}

\* the state of main after lines 45-78: arguments parsed, both nets built
\* and loaded, the teacher put in eval mode and frozen, the optimizer built
\* over the student's parameters with lr = args.lr
\* The runs of the model: short runs (up to SmallEpochs epochs) with every
\* choice of arguments and loader lengths, and long runs (DefaultEpochs
\* epochs and more) with one batch per loader
MainInit ==
    /\ args \in ArgChoices
    /\ pretrained \in PretrainedChoices
    /\ nTrain \in 1..MaxTrainBatches
    /\ nTest \in 1..MaxTestBatches
    /\ args.epochs > SmallEpochs =>
          (nTrain = 1 /\ nTest = 1 /\ args.data_name # "cifar100")
    /\ pc = "select_dataset"
    /\ err = "none"
    /\ dataset = "none"
    /\ loaders = {}
    /\ epoch = 0
    /\ params = pretrained
    /\ requires_grad = [snet |-> TRUE, tnet |-> FALSE]
    /\ net_mode = [snet |-> "train", tnet |-> "eval"]
    /\ grads = [n \in Nets |-> "none"]
    /\ lr = args.lr
    /\ lr_idx = 0
    /\ idx = 0
    /\ output_s = NoTensor
    /\ output_t = NoTensor
    /\ cls_in = NoTensor
    /\ pkt_in = <<NoTensor, NoTensor>>
    /\ loss = {}
    /\ meters = 0
    /\ files = <<>>
    /\ batchLog = <<>>
    /\ optSteps = 0
    /\ passes = [train |-> 0, test |-> 0, saves |-> 0]

PktIdle ==
    /\ emb_s = <<>>
    /\ emb_t = <<>>
    /\ pkt = [done |-> FALSE]

Init == MainInit /\ PktIdle

\* mutant: an unknown name falls back to CIFAR10
select_dataset_default(name) ==
    IF name = "cifar100" THEN "CIFAR100" ELSE "CIFAR10"

\* lines 81-90: the dataset class for a name, "raise" for an unknown name
select_dataset(name) ==
    IF name = "cifar10" THEN "CIFAR10"
    ELSE IF name = "cifar100" THEN "CIFAR100"
    ELSE "raise"

configVars == <<args, pretrained, nTrain, nTest, requires_grad>>
netVars == <<params, net_mode, grads>>
batchVars == <<output_s, output_t, cls_in, pkt_in, loss>>
histVars == <<batchLog, optSteps, passes>>

\* lines 80-90
SelectDataset ==
    /\ pc = "select_dataset"
    /\ LET d == select_dataset(args.data_name) IN
         IF d = "raise"
         THEN /\ pc' = "failed"
              /\ err' = "invalid dataset name..."
              /\ UNCHANGED dataset
         ELSE /\ pc' = "build_loaders"
              /\ dataset' = d
              /\ UNCHANGED err
    /\ UNCHANGED <<configVars, netVars, batchVars, histVars, loaders, epoch,
                   lr, lr_idx, idx, meters, files, pktVars>>

\* lines 92-117
BuildLoaders ==
    /\ pc = "build_loaders"
    /\ loaders' = {[dataset |-> dataset, train |-> TRUE],
                   [dataset |-> dataset, train |-> FALSE]}
    /\ pc' = "for"
    /\ UNCHANGED <<configVars, netVars, batchVars, histVars, err, dataset,
                   epoch, lr, lr_idx, idx, meters, files, pktVars>>

\* mutant: range(1, args.epochs + 2)
epoch_range_one_more(a) == 1..(a.epochs + 1)

\* range(1, args.epochs+1)
epoch_range(a) == 1..a.epochs

\* line 119: the next value of the loop variable, or the end of the loop
ForEpoch ==
    /\ pc = "for"
    /\ IF epoch + 1 \in epoch_range(args)
       THEN /\ epoch' = epoch + 1
            /\ pc' = "adjust_lr"
       ELSE /\ pc' = "done"
            /\ UNCHANGED epoch
    /\ UNCHANGED <<configVars, netVars, batchVars, histVars, err, dataset,
                   loaders, lr, lr_idx, idx, meters, files, pktVars>>

\* line 122 and lines 243-252
AdjustLr ==
    /\ pc = "adjust_lr"
    /\ LET r == adjust_lr(args.lr, epoch) IN
         /\ lr_idx' = r.index
         /\ IF r.res.raised = "none"
            THEN /\ lr' = r.res.val
                 /\ pc' = "train_begin"
                 /\ UNCHANGED err
            ELSE /\ pc' = "failed"
                 /\ err' = r.res.raised
                 /\ UNCHANGED lr
    /\ UNCHANGED <<configVars, netVars, batchVars, histVars, dataset, loaders,
                   epoch, idx, meters, files, pktVars>>

-----------------------------------------------------------------------------
(* train *)

\* lines 155-169: fresh meters, snet.train()
TrainBegin ==
    /\ pc = "train_begin"
    /\ meters' = 0
    /\ net_mode' = [net_mode EXCEPT !["snet"] = "train"]
    /\ idx' = 0
    /\ optSteps' = 0
    /\ batchLog' = <<>>
    /\ pc' = "train_fetch"
    /\ UNCHANGED <<configVars, params, grads, batchVars, passes, err, dataset,
                   loaders, epoch, lr, lr_idx, files, pktVars>>

\* lines 170-175: the next batch of train_loader, or the end of the pass
\* (back in main, lines 128-133)
TrainFetch ==
    /\ pc = "train_fetch"
    /\ IF idx < nTrain
       THEN /\ idx' = idx + 1
            /\ batchLog' = <<>>
            /\ pc' = "fwd_s"
            /\ UNCHANGED passes
       ELSE /\ passes' = [passes EXCEPT !.train = @ + 1]
            /\ pc' = "test_begin"
            /\ UNCHANGED <<idx, batchLog>>
    /\ UNCHANGED <<configVars, netVars, batchVars, optSteps, err, dataset,
                   loaders, epoch, lr, lr_idx, meters, files, pktVars>>

\* line 177
FwdS ==
    /\ pc = "fwd_s"
    /\ output_s' = forward("snet", TRUE)[5]
    /\ batchLog' = Append(batchLog, "student_forward")
    /\ pc' = "fwd_t"
    /\ UNCHANGED <<configVars, netVars, output_t, cls_in, pkt_in, loss,
                   optSteps, passes, err, dataset, loaders, epoch, lr, lr_idx,
                   idx, meters, files, pktVars>>

\* line 178
FwdT ==
    /\ pc = "fwd_t"
    /\ output_t' = forward("tnet", TRUE)[5]
    /\ batchLog' = Append(batchLog, "teacher_forward")
    /\ pc' = "loss"
    /\ UNCHANGED <<configVars, netVars, output_s, cls_in, pkt_in, loss,
                   optSteps, passes, err, dataset, loaders, epoch, lr, lr_idx,
                   idx, meters, files, pktVars>>

\* lines 180-182
Loss ==
    /\ pc = "loss"
    /\ cls_in' = output_s
    /\ pkt_in' = <<output_s, detach(output_t)>>
    /\ loss' = GraphNets({output_s, detach(output_t)})
    /\ batchLog' = Append(batchLog, "loss")
    /\ pc' = "meters"
    /\ UNCHANGED <<configVars, netVars, output_s, output_t, optSteps, passes,
                   err, dataset, loaders, epoch, lr, lr_idx, idx, meters,
                   files, pktVars>>

\* lines 184-188
Meters ==
    /\ pc = "meters"
    /\ meters' = meters + 1
    /\ batchLog' = Append(batchLog, "accumulators")
    /\ pc' = "zero_grad"
    /\ UNCHANGED <<configVars, netVars, batchVars, optSteps, passes, err,
                   dataset, loaders, epoch, lr, lr_idx, idx, files, pktVars>>

\* line 190: the gradients of the optimizer's parameters are cleared
ZeroGrad ==
    /\ pc = "zero_grad"
    /\ grads' = [n \in Nets |-> IF n \in OptimizerParams /\ grads[n] # "none"
                                THEN "zero" ELSE grads[n]]
    /\ batchLog' = Append(batchLog, "zero_grad")
    /\ pc' = "backward"
    /\ UNCHANGED <<configVars, params, net_mode, batchVars, optSteps, passes,
                   err, dataset, loaders, epoch, lr, lr_idx, idx, meters,
                   files, pktVars>>

\* line 191: gradients for the parameters the loss's graph reaches
Backward ==
    /\ pc = "backward"
    /\ grads' = [n \in Nets |-> IF n \in loss /\ requires_grad[n]
                                THEN "set" ELSE grads[n]]
    /\ batchLog' = Append(batchLog, "backward")
    /\ pc' = "step"
    /\ UNCHANGED <<configVars, params, net_mode, batchVars, optSteps, passes,
                   err, dataset, loaders, epoch, lr, lr_idx, idx, meters,
                   files, pktVars>>

\* mutant: the call of optimizer.step() is missing
StepSkipped ==
    /\ pc = "step"
    /\ pc' = "batch_end"
    /\ UNCHANGED <<configVars, netVars, batchVars, histVars, err, dataset,
                   loaders, epoch, lr, lr_idx, idx, meters, files, pktVars>>

\* line 192
Step ==
    /\ pc = "step"
    /\ params' = optimizer_step(params, grads)
    /\ optSteps' = optSteps + 1
    /\ batchLog' = Append(batchLog, "optimizer_step")
    /\ pc' = "batch_end"
    /\ UNCHANGED <<configVars, net_mode, grads, batchVars, passes, err,
                   dataset, loaders, epoch, lr, lr_idx, idx, meters, files,
                   pktVars>>

\* lines 194-206: batch_time, the progress line
BatchEnd ==
    /\ pc = "batch_end"
    /\ pc' = "train_fetch"
    /\ UNCHANGED <<configVars, netVars, batchVars, histVars, err, dataset,
                   loaders, epoch, lr, lr_idx, idx, meters, files, pktVars>>

-----------------------------------------------------------------------------
(* test *)

\* lines 209-221: fresh meters, snet.eval()
TestBegin ==
    /\ pc = "test_begin"
    /\ meters' = 0
    /\ net_mode' = [net_mode EXCEPT !["snet"] = "eval"]
    /\ idx' = 0
    /\ optSteps' = 0
    /\ batchLog' = <<>>
    /\ pc' = "test_fetch"
    /\ UNCHANGED <<configVars, params, grads, batchVars, passes, err, dataset,
                   loaders, epoch, lr, lr_idx, files, pktVars>>

\* lines 222-225: the next batch of test_loader, or the end of the loop
TestFetch ==
    /\ pc = "test_fetch"
    /\ IF idx < nTest
       THEN /\ idx' = idx + 1
            /\ batchLog' = <<>>
            /\ pc' = "test_fwd_s"
       ELSE /\ pc' = "test_summary"
            /\ UNCHANGED <<idx, batchLog>>
    /\ UNCHANGED <<configVars, netVars, batchVars, optSteps, passes, err,
                   dataset, loaders, epoch, lr, lr_idx, meters, files, pktVars>>

\* lines 227-228, under torch.no_grad()
TestFwdS ==
    /\ pc = "test_fwd_s"
    /\ output_s' = forward("snet", FALSE)[5]
    /\ batchLog' = Append(batchLog, "student_forward")
    /\ pc' = "test_fwd_t"
    /\ UNCHANGED <<configVars, netVars, output_t, cls_in, pkt_in, loss,
                   optSteps, passes, err, dataset, loaders, epoch, lr, lr_idx,
                   idx, meters, files, pktVars>>

\* lines 227, 229, under torch.no_grad()
TestFwdT ==
    /\ pc = "test_fwd_t"
    /\ output_t' = forward("tnet", FALSE)[5]
    /\ batchLog' = Append(batchLog, "teacher_forward")
    /\ pc' = "test_loss"
    /\ UNCHANGED <<configVars, netVars, output_s, cls_in, pkt_in, loss,
                   optSteps, passes, err, dataset, loaders, epoch, lr, lr_idx,
                   idx, meters, files, pktVars>>

\* mutant: the evaluation batch also runs lines 190-192 of train
TestLossAndStep ==
    /\ pc = "test_loss"
    /\ cls_in' = output_s
    /\ pkt_in' = <<output_s, detach(output_t)>>
    /\ loss' = GraphNets({output_s, detach(output_t)})
    /\ grads' = [n \in Nets |-> IF n \in OptimizerParams THEN "set" ELSE grads[n]]
    /\ params' = optimizer_step(params, grads')
    /\ batchLog' = Append(batchLog, "loss")
    /\ pc' = "test_meters"
    /\ UNCHANGED <<configVars, net_mode, output_s, output_t, optSteps, passes,
                   err, dataset, loaders, epoch, lr, lr_idx, idx, meters,
                   files, pktVars>>

\* lines 231-232
TestLoss ==
    /\ pc = "test_loss"
    /\ cls_in' = output_s
    /\ pkt_in' = <<output_s, detach(output_t)>>
    /\ loss' = GraphNets({output_s, detach(output_t)})
    /\ batchLog' = Append(batchLog, "loss")
    /\ pc' = "test_meters"
    /\ UNCHANGED <<configVars, netVars, output_s, output_t, optSteps, passes,
                   err, dataset, loaders, epoch, lr, lr_idx, idx, meters,
                   files, pktVars>>

\* lines 234-238
TestMeters ==
    /\ pc = "test_meters"
    /\ meters' = meters + 1
    /\ batchLog' = Append(batchLog, "accumulators")
    /\ pc' = "test_fetch"
    /\ UNCHANGED <<configVars, netVars, batchVars, optSteps, passes, err,
                   dataset, loaders, epoch, lr, lr_idx, idx, files, pktVars>>

\* lines 240-241 and, back in main, lines 135-136
TestSummary ==
    /\ pc = "test_summary"
    /\ passes' = [passes EXCEPT !.test = @ + 1]
    /\ pc' = "save"
    /\ UNCHANGED <<configVars, netVars, batchVars, batchLog, optSteps, err,
                   dataset, loaders, epoch, lr, lr_idx, idx, meters, files,
                   pktVars>>

-----------------------------------------------------------------------------
(* checkpoint *)

\* lines 142-152: the record handed to save_checkpoint
checkpoint_record(e, p) ==
    IF e = 1
    THEN [epoch |-> e, snet |-> p["snet"], tnet |-> p["tnet"]]
    ELSE [epoch |-> e, snet |-> p["snet"]]

\* lines 138-152
Save ==
    /\ pc = "save"
    /\ files' = save_checkpoint(files, checkpoint_record(epoch, params),
                                save_name(args, epoch))
    /\ passes' = [passes EXCEPT !.saves = @ + 1]
    /\ pc' = "for"
    /\ UNCHANGED <<configVars, netVars, batchVars, batchLog, optSteps, err,
                   dataset, loaders, epoch, lr, lr_idx, idx, meters, pktVars>>

TrainPass == TrainBegin \/ TrainFetch \/ FwdS \/ FwdT \/ Loss \/ Meters
             \/ ZeroGrad \/ Backward \/ Step \/ BatchEnd
TestPass == TestBegin \/ TestFetch \/ TestFwdS \/ TestFwdT \/ TestLoss
            \/ TestMeters \/ TestSummary

Next == SelectDataset \/ BuildLoaders \/ ForEpoch \/ AdjustLr \/ TrainPass
        \/ TestPass \/ Save

Spec == Init /\ [][Next]_vars

\* the interpreter runs main to its end: every enabled step is taken
FairSpec == Spec /\ WF_vars(Next)

-----------------------------------------------------------------------------
(* Properties of the run *)

TrainPcs == {"train_begin", "train_fetch", "fwd_s", "fwd_t", "loss", "meters",
             "zero_grad", "backward", "step", "batch_end"}
TestPcs == {"test_begin", "test_fetch", "test_fwd_s", "test_fwd_t",
            "test_loss", "test_meters", "test_summary"}
SchedLen == Seg1 + Seg2 + Seg3
Count(t, e, s) == [train |-> t, test |-> e, saves |-> s]

\* C1: the teacher's parameters always equal the values loaded from the
\* pretrained teacher checkpoint; a step that changes any parameter is the
\* optimizer step of a training batch, and it changes the student only.
TeacherFrozen ==
    /\ [](params["tnet"] = pretrained["tnet"])
    /\ [][params' # params =>
            (pc = "step" /\ net_mode["snet"] = "train"
             /\ params'["tnet"] = params["tnet"]
             /\ params'["snet"] # params["snet"])]_vars

\* C1 witness: after optimizer steps in a later epoch the student differs
\* from its initial parameters and the teacher does not
TeacherFrozenWitness ==
    /\ pc = "batch_end"
    /\ epoch = 2
    /\ params["snet"] # pretrained["snet"]
    /\ params["tnet"] = pretrained["tnet"]

\* C2: for 1 <= E <= 200 the epochs run in increasing order, each with one
\* training pass, then one evaluation pass, then one checkpoint write; the
\* loop never reaches epoch E+1 and the run ends after the write of epoch E.
EpochOrderInv ==
    args.epochs \in 1..DefaultEpochs =>
        /\ epoch \in 0..args.epochs
        /\ pc = "adjust_lr" => passes = Count(epoch - 1, epoch - 1, epoch - 1)
        /\ pc \in TrainPcs => passes = Count(epoch - 1, epoch - 1, epoch - 1)
        /\ pc \in TestPcs => passes = Count(epoch, epoch - 1, epoch - 1)
        /\ pc = "save" => passes = Count(epoch, epoch, epoch - 1)
        /\ pc = "for" => passes = Count(epoch, epoch, epoch)
        /\ pc = "done" => epoch = args.epochs /\ passes = Count(epoch, epoch, epoch)

EpochOrder ==
    /\ []EpochOrderInv
    /\ [][epoch' # epoch => epoch' = epoch + 1 /\ pc = "for"]_vars
    /\ (pc = "build_loaders" /\ args.epochs \in 1..DefaultEpochs) ~> (pc = "done")

\* C2 witness: a run of 200 epochs has ended
EpochOrderWitness ==
    pc = "done" /\ args.epochs = DefaultEpochs /\ passes = Count(200, 200, 200)

\* the rate the schedule assigns to epoch e for base rate b
ScheduledLr(b, e) ==
    IF e <= 100 THEN b ELSE IF e <= 150 THEN b \div 10 ELSE b \div 100

\* C3: throughout the training pass of epoch e in 1..200 the optimizer's
\* learning rate is b for e <= 100, b*0.1 for 101..150 and b*0.01 for
\* 151..200 (for b = 0.1: 0.1 at epoch 50, 0.01 at 150, 0.001 at 199).
LrSchedule ==
    (pc \in TrainPcs /\ epoch \in 1..200) =>
        /\ lr = ScheduledLr(args.lr, epoch)
        /\ lr_idx = epoch - 1
        /\ (args.lr = 1000 /\ epoch = 50) => lr = 1000
        /\ (args.lr = 1000 /\ epoch = 150) => lr = 100
        /\ (args.lr = 1000 /\ epoch = 199) => lr = 10

\* C3 witness: the optimizer step of a batch of epoch 199 with base rate 0.1
LrScheduleWitness ==
    pc = "step" /\ epoch = 199 /\ args.lr = 1000 /\ lr = 10

\* C4 (as claimed): once adjust_lr has run for an epoch outside the
\* schedule, either the run was rejected with a configuration error or the
\* index handed to the lookup was brought into the schedule's range.
LrIndexGuarded ==
    (epoch > SchedLen /\ pc \notin {"for", "adjust_lr"}) =>
        \/ err = "ConfigurationError"
        \/ err = "none" /\ lr_idx \in 0..(SchedLen - 1)

\* C5: no step of an evaluation pass changes the student's or the teacher's
\* parameters, any gradient, or the optimizer's learning rate.
EvalPassFrame ==
    [][(pc \in TestPcs) =>
            (params' = params /\ grads' = grads /\ lr' = lr
             /\ requires_grad' = requires_grad)]_vars

\* C5 witness: an evaluation pass over two batches has ended while the
\* student holds gradients from the training pass
EvalPassFrameWitness ==
    /\ pc = "test_summary"
    /\ nTest = 2
    /\ meters = 2
    /\ grads["snet"] = "set"

\* C6 (as claimed): in every batch the classification loss gets the
\* student's class scores and the PKT loss gets the two embeddings, not the
\* class-score tensors.
PktOnEmbeddings ==
    pc \in {"meters", "test_meters"} =>
        /\ cls_in.net = "snet" /\ cls_in.kind = "scores"
        /\ pkt_in[1].net = "snet" /\ pkt_in[1].kind # "scores"
        /\ pkt_in[2].net = "tnet" /\ pkt_in[2].kind # "scores"

\* C8: after the write of epoch e there is one record per epoch 1..e, each
\* at its own path; the record of epoch e holds e and the student's current
\* parameters, and a record holds the teacher's parameters iff its epoch is
\* 1; only a checkpoint write changes the files, and it adds a path and
\* leaves every earlier record as it was.
CheckpointsAfterSave ==
    (pc = "for" /\ epoch >= 1) =>
        /\ Cardinality(DOMAIN files) = epoch
        /\ passes.saves = epoch
        /\ {files[p].epoch : p \in DOMAIN files} = 1..epoch
        /\ \A p \in DOMAIN files :
              /\ "snet" \in DOMAIN files[p]
              /\ ("tnet" \in DOMAIN files[p]) <=> (files[p].epoch = 1)
              /\ files[p].epoch = 1 => files[p].tnet = pretrained["tnet"]
              /\ files[p].epoch = epoch => files[p].snet = params["snet"]

CheckpointRecords ==
    /\ []CheckpointsAfterSave
    /\ [][files' # files =>
            (/\ pc = "save"
             /\ Cardinality(DOMAIN files') = Cardinality(DOMAIN files) + 1
             /\ \A p \in DOMAIN files : p \in DOMAIN files' /\ files'[p] = files[p])]_vars

\* C8 witness: the third checkpoint of a run has been written
CheckpointRecordsWitness ==
    pc = "for" /\ epoch = 3 /\ passes.saves = 3 /\ Cardinality(DOMAIN files) = 3

\* C9: with a dataset name other than cifar10 and cifar100 the run ends
\* with the explicit error before a dataset or loader exists, and without
\* any pass or checkpoint write.
InvalidDatasetFailsFast ==
    args.data_name \notin {"cifar10", "cifar100"} =>
        /\ pc \in {"select_dataset", "failed"}
        /\ pc = "failed" => err = "invalid dataset name..."
        /\ dataset = "none"
        /\ loaders = {}
        /\ epoch = 0
        /\ passes = Count(0, 0, 0)
        /\ files = <<>>

\* C9 witness: the run with an unknown dataset name has failed
InvalidDatasetWitness ==
    pc = "failed" /\ args.data_name = "imagenet" /\ err = "invalid dataset name..."

\* C10 (as claimed): a finished training batch has run student forward,
\* teacher forward, loss, gradient clearing, backpropagation, optimizer step
\* and then the accumulator update, in this order.
TrainBatchOrderClaimed ==
    pc = "batch_end" =>
        batchLog = <<"student_forward", "teacher_forward", "loss", "zero_grad",
                     "backward", "optimizer_step", "accumulators">>

\* C10 (amended): a finished training batch has run student forward, teacher
\* forward, loss, accumulator update, gradient clearing, backpropagation and
\* optimizer step, each once and in this order; a batch starts only after
\* the previous one has finished, and a pass takes one step per batch.
TrainBatchOrder ==
    /\ pc = "batch_end" =>
          /\ batchLog = <<"student_forward", "teacher_forward", "loss",
                          "accumulators", "zero_grad", "backward",
                          "optimizer_step">>
          /\ optSteps = idx
          /\ meters = idx
    /\ pc = "fwd_s" => batchLog = <<>> /\ optSteps = idx - 1 /\ meters = idx - 1
    /\ pc = "test_begin" => optSteps = nTrain /\ meters = nTrain /\ idx = nTrain

\* C10 witness: the second batch of a training pass has finished
TrainBatchOrderWitness ==
    pc = "batch_end" /\ idx = 2 /\ optSteps = 2

-----------------------------------------------------------------------------
(* Tensor arithmetic: fixed-point numbers with FP units per 1.0, rounded    *)
(* toward zero, and NaN.  A tensor is a sequence of rows.                   *)

NaN == [nan |-> TRUE, v |-> 0]
Num(x) == [nan |-> FALSE, v |-> x]

\* integer division rounding toward zero
TDiv(a, b) ==
    IF (a >= 0) = (b > 0) THEN (IF a >= 0 THEN a ELSE -a) \div (IF b > 0 THEN b ELSE -b)
    ELSE -((IF a >= 0 THEN a ELSE -a) \div (IF b > 0 THEN b ELSE -b))

FAdd(a, b) == IF a.nan \/ b.nan THEN NaN ELSE Num(a.v + b.v)
FMul(a, b) == IF a.nan \/ b.nan THEN NaN ELSE Num(TDiv(a.v * b.v, FP))
\* a / b; a division by zero gives a non-finite value
FDiv(a, b) == IF a.nan \/ b.nan \/ b.v = 0 THEN NaN ELSE Num(TDiv(a.v * FP, b.v))

RECURSIVE ISqrtIn(_, _, _)
\* the largest r in lo..hi with r*r <= n
ISqrtIn(n, lo, hi) ==
    IF lo >= hi THEN lo
    ELSE LET mid == (lo + hi + 1) \div 2 IN
         IF mid * mid <= n THEN ISqrtIn(n, mid, hi) ELSE ISqrtIn(n, lo, mid - 1)

\* torch.sqrt
FSqrt(a) ==
    IF a.nan \/ a.v < 0 THEN NaN
    ELSE Num(ISqrtIn(a.v * FP, 0, IF a.v * FP < 46340 THEN a.v * FP ELSE 46340))

\* torch.log, by the approximation ln r = 2(r-1)/(r+1) = 2 - 4/(r+1), which
\* is 0 exactly at r = 1, negative below and positive above; the log of a
\* number that is not positive is non-finite
FLog(a) ==
    IF a.nan \/ a.v <= 0 THEN NaN
    ELSE Num(2 * FP - TDiv(4 * FP * FP, a.v + FP))

RECURSIVE FSum(_, _)
\* sum of the first n entries of the sequence f
FSum(f, n) == IF n = 0 THEN Num(0) ELSE FAdd(FSum(f, n - 1), f[n])

Rows(x) == Len(x)
Cols(x) == Len(x[1])

\* lines 259-261 (263-265): each row divided by its norm + eps, and the
\* entries that are NaN set to 0
normalize(x) ==
    [i \in 1..Rows(x) |->
        LET norm == FSqrt(FSum([j \in 1..Cols(x) |-> FMul(x[i][j], x[i][j])], Cols(x)))
        IN [j \in 1..Cols(x) |->
               LET q == FDiv(x[i][j], FAdd(norm, Num(Eps)))
               IN IF q.nan THEN Num(0) ELSE q]]

\* line 268 (269): torch.mm(x, x.transpose(0, 1))
cos_sim(x) ==
    [i \in 1..Rows(x) |-> [k \in 1..Rows(x) |->
        FSum([j \in 1..Cols(x) |-> FMul(x[i][j], x[k][j])], Cols(x))]]

\* line 272 (273): (x + 1.0) / 2.0
rescale(c) ==
    [i \in 1..Len(c) |-> [k \in 1..Len(c) |->
        FDiv(FAdd(c[i][k], Num(FP)), Num(2 * FP))]]

\* line 276 (277): every row divided by its sum
cond_prob(c) ==
    [i \in 1..Len(c) |-> [k \in 1..Len(c) |->
        FDiv(c[i][k], FSum(c[i], Len(c)))]]

\* lines 259-276 for one of the two tensors
similarity_distribution(x) == cond_prob(rescale(cos_sim(normalize(x))))

\* flat mean over all entries of a square matrix
FMean(m) ==
    FDiv(FSum([i \in 1..Len(m) |-> FSum(m[i], Len(m))], Len(m)),
         Num(Len(m) * Len(m) * FP))

\* mutant: eps is missing from the denominator
kl_divergence_no_eps(pt, ps) ==
    FMean([i \in 1..Len(pt) |-> [k \in 1..Len(pt) |->
        FMul(pt[i][k], FLog(FDiv(FAdd(pt[i][k], Num(Eps)), ps[i][k])))]])

\* line 280
kl_divergence(pt, ps) ==
    FMean([i \in 1..Len(pt) |-> [k \in 1..Len(pt) |->
        FMul(pt[i][k],
             FLog(FDiv(FAdd(pt[i][k], Num(Eps)), FAdd(ps[i][k], Num(Eps)))))]])

\* lines 257-282: the loss returned at line 282, with the two matrices of
\* lines 276 and 277 it is computed from
pkt_cosine_similarity_loss(s, t) ==
    LET ps == similarity_distribution(s)
        pt == similarity_distribution(t)
    IN [P_s |-> ps, P_t |-> pt, loss |-> kl_divergence(pt, ps)]

(* The loss computation of a batch, lines 180-182, on concrete tensors *)

\* the entries of the tensors: -1.0, 0.0, 1.0 and NaN
Entries == {Num(-FP), Num(0), Num(FP), NaN}
Tensors == [1..BatchN -> [1..EmbD -> Entries]]
\* the tensors that differ from x in at most one entry
Near(x) ==
    {x} \cup {[x EXCEPT ![i][j] = e] : i \in 1..BatchN, j \in 1..EmbD, e \in Entries}
ClsLossChoices == {Num(0), Num(2300)}         \* criterionCls(output_s, target)
LambdaChoices == {0, 1, 1000}                 \* --lambda_pkt

InitPkt ==
    /\ MainInit
    /\ args.epochs = 1 /\ args.lr = 1000 /\ args.data_name = "cifar10"
    /\ pretrained["snet"] = 0 /\ nTrain = 1 /\ nTest = 1
    /\ emb_s \in Tensors
    /\ emb_t \in Near(emb_s)
    /\ pkt = [done |-> FALSE]

\* line 181: the call of pkt_cosine_similarity_loss
PktLoss ==
    /\ ~pkt.done
    /\ "call" \notin DOMAIN pkt
    /\ pkt' = [done |-> FALSE, call |-> pkt_cosine_similarity_loss(emb_s, emb_t)]
    /\ UNCHANGED <<mainVars, emb_s, emb_t>>

\* lines 180-182 with cls_loss = c and args.lambda_pkt = lam
TotalLoss(c, lam) ==
    /\ ~pkt.done
    /\ "call" \in DOMAIN pkt
    /\ LET pkt_loss == FMul(pkt.call.loss, Num(lam * FP))
       IN pkt' = [done |-> TRUE,
                  P_s |-> pkt.call.P_s,
                  P_t |-> pkt.call.P_t,
                  div |-> pkt.call.loss,
                  cls_loss |-> c,
                  lambda_pkt |-> lam,
                  pkt_loss |-> pkt_loss,
                  loss |-> FAdd(c, pkt_loss)]
    /\ UNCHANGED <<mainVars, emb_s, emb_t>>

NextPkt ==
    \/ PktLoss
    \/ \E c \in ClsLossChoices, lam \in LambdaChoices : TotalLoss(c, lam)

SpecPkt == InitPkt /\ [][NextPkt]_vars

\* C7: when the student tensor and the teacher tensor are identical, the two
\* conditional-probability matrices are equal, the divergence is 0, and for
\* every weight lambda the total loss equals the classification loss.
IdenticalEmbeddingsZeroLoss ==
    (pkt.done /\ emb_s = emb_t) =>
        /\ pkt.P_s = pkt.P_t
        /\ pkt.div = Num(0)
        /\ pkt.pkt_loss = Num(0)
        /\ pkt.loss = pkt.cls_loss

\* C7 witness: the loss of a batch with identical non-zero tensors, a
\* positive classification loss and lambda = 1000
IdenticalEmbeddingsWitness ==
    /\ pkt.done
    /\ emb_s = emb_t
    /\ emb_s[1][1] = Num(FP)
    /\ emb_s[2][1] = Num(-FP)
    /\ pkt.lambda_pkt = 1000
    /\ pkt.cls_loss = Num(2300)
    /\ pkt.loss = Num(2300)

====
